---- MODULE Spec2Model ----
(***************************************************************************)
(* Model of lib/auth/permissions.go: the Authorizer that resolves the      *)
(* identity attached to a request into an AuthContext (user + checker),    *)
(* the builtin role table, and the fixed-context authorizers.              *)
(*                                                                         *)
(* Strings are TLA+ strings, fmt.Sprintf is string concatenation.  A Go    *)
(* (value, error) pair is a record with an err field, "" meaning nil.      *)
(* An Authorize call is split at the calls to the three backends, which    *)
(* are the only points where concurrent calls and backend updates can      *)
(* interleave.                                                             *)
(***************************************************************************)
EXTENDS Integers, Sequences, FiniteSets, TLC

VARIABLES
    authz,      \* the Authorizer built by one of the three constructors
    ctorErr,    \* error returned by the last constructor call
    identity,   \* services.Identity backend: names of the stored users
    trust,      \* services.Trust backend: cluster name -> cert authority
    accessUp,   \* services.Access backend: TRUE when its calls succeed
    heap,       \* AuthContext objects, by address
    call        \* per caller: the Authorize call in progress or returned

vars == <<authz, ctorErr, identity, trust, accessUp, heap, call>>

(***************************************************************************)
(* Bounds and input sets                                                   *)
(***************************************************************************)
\* longest RemoteRoles list a remote claim carries
MaxRemoteRoles == 1

\* concurrent request handlers
Callers == {"c1", "c2"}

\* user names the identity backend may hold
LocalUserNames == {"alice", "remote-alice-east"}
\* user names a claim may carry
ClaimUserNames == {"alice", "remote-alice-east"}
RemoteUserNames == {"alice"}
ClusterNames == {"east"}
RemoteRoleNames == {"viewer", "intern"}

\* roles stored in the access backend
AccessRoleNames == {"local-viewer", "local-editor", "viewer"}

(***************************************************************************)
(* services: constants, role specifications, checkers                      *)
(***************************************************************************)
Wildcard == "*"
ActionRead == "read"
ActionWrite == "write"
RW == {ActionRead, ActionWrite}
RO == {ActionRead}
MaxSessionTTL == "max_session_ttl"
MaxDuration == "max-duration"

KindAuthServer == "auth_server"
KindNode == "node"
KindSession == "session"
KindEvent == "event"
KindProxy == "proxy"
KindCertAuthority == "cert_authority"
KindUser == "user"
KindNamespace == "namespace"
KindRole == "role"
KindReverseTunnel == "tunnel"
KindOIDCRequest == "oidc_request"
KindSAMLRequest == "saml_request"
KindOIDC == "oidc"
KindSAML == "saml"
KindClusterAuthPreference == "cluster_auth_preference"
KindClusterName == "cluster_name"
KindStaticTokens == "static_tokens"
KindWebSession == "web_session"
KindTrustedCluster == "trusted_cluster"

\* every resource kind the table names, and one it does not
Kinds ==
    {KindAuthServer, KindNode, KindSession, KindEvent, KindProxy,
     KindCertAuthority, KindUser, KindNamespace, KindRole, KindReverseTunnel,
     KindOIDCRequest, KindSAMLRequest, KindOIDC, KindSAML,
     KindClusterAuthPreference, KindClusterName, KindStaticTokens,
     KindWebSession, KindTrustedCluster, "github"}
Namespaces == {"default", "staging"}
Verbs == RW

\* map[string][]string entry kind -> verbs, as a set of <<kind, verb>>
Rule(kind, verbs) == {<<kind, v>> : v \in verbs}

\* services.RoleSpecV3{}: every field at its zero value
RoleSpecV3 ==
    [Namespaces |-> {}, Options |-> {}, Logins |-> {}, NodeLabels |-> {},
     Rules |-> {}]

NoTraits == {}
NoUser == [name |-> "", roles |-> <<>>, traits |-> NoTraits]
NoChecker == [roles |-> {}, traits |-> NoTraits, nil |-> TRUE]

\* services.FromSpec: a checker over the single role (name, spec)
FromSpec(name, spec) ==
    [err |-> "",
     checker |-> [roles |-> {[name |-> name, spec |-> spec]},
                  traits |-> NoTraits,
                  nil |-> FALSE]]

\* the decision a checker gives for (namespace, kind, verb)
CheckAccessToRule(checker, ns, kind, verb) ==
    \E r \in checker.roles :
        /\ \E n \in r.spec.Namespaces : n = Wildcard \/ n = ns
        /\ \E rule \in r.spec.Rules :
              /\ rule[1] = Wildcard \/ rule[1] = kind
              /\ rule[2] = verb

\* every (namespace, kind, verb) a checker allows
Grants(checker) ==
    {q \in Namespaces \X Kinds \X Verbs :
        CheckAccessToRule(checker, q[1], q[2], q[3])}

\* services.NewUser: a fresh user record of that name, without roles
NewUser(name) ==
    IF name = ""
    THEN [err |-> "BadParameter", user |-> NoUser]
    ELSE [err |-> "",
          user |-> [name |-> name, roles |-> <<>>, traits |-> NoTraits]]

(***************************************************************************)
(* teleport.Role identifiers                                               *)
(***************************************************************************)
RoleAuth == "auth-server"
RoleProvisionToken == "provision-token"
RoleNode == "node"
RoleProxy == "proxy"
RoleWeb == "web"
RoleSignup == "signup"
RoleAdmin == "admin"
RoleNop == "nop"

KnownRoles ==
    {RoleAuth, RoleProvisionToken, RoleNode, RoleProxy, RoleWeb, RoleSignup,
     RoleAdmin, RoleNop}
\* identifiers a BuiltinRole claim may carry
BuiltinRoleIds == KnownRoles \cup {"trusted-cluster", "bogus"}

(***************************************************************************)
(* The builtin role table                                                  *)
(***************************************************************************)
\* slip: the Namespaces field of the role conditions is left out
Allow_NoNamespaces(namespaces, rules) ==
    [RoleSpecV3 EXCEPT !.Rules = rules]

\* RoleSpecV3{Allow: RoleConditions{Namespaces: ..., Rules: ...}}
Allow(namespaces, rules) ==
    [RoleSpecV3 EXCEPT !.Namespaces = namespaces, !.Rules = rules]

GetCheckerForBuiltinRole(role) ==
    CASE role = RoleAuth ->
            FromSpec(role, Allow({Wildcard}, Rule(KindAuthServer, RW)))
      [] role = RoleProvisionToken ->
            FromSpec(role, RoleSpecV3)
      [] role = RoleNode ->
            FromSpec(role, Allow({Wildcard},
                Rule(KindNode, RW) \cup
                Rule(KindSession, RW) \cup
                Rule(KindEvent, RW) \cup
                Rule(KindProxy, RO) \cup
                Rule(KindCertAuthority, RO) \cup
                Rule(KindUser, RO) \cup
                Rule(KindNamespace, RO) \cup
                Rule(KindRole, RO) \cup
                Rule(KindAuthServer, RO) \cup
                Rule(KindReverseTunnel, RO)))
      [] role = RoleProxy ->
            FromSpec(role, Allow({Wildcard},
                Rule(KindProxy, RW) \cup
                Rule(KindOIDCRequest, RW) \cup
                Rule(KindSession, RW) \cup
                Rule(KindEvent, RW) \cup
                Rule(KindSAMLRequest, RW) \cup
                Rule(KindOIDC, RO) \cup
                Rule(KindSAML, RO) \cup
                Rule(KindNamespace, RO) \cup
                Rule(KindNode, RO) \cup
                Rule(KindAuthServer, RO) \cup
                Rule(KindReverseTunnel, RO) \cup
                Rule(KindCertAuthority, RO) \cup
                Rule(KindUser, RO) \cup
                Rule(KindRole, RO) \cup
                Rule(KindClusterAuthPreference, RO) \cup
                Rule(KindClusterName, RO) \cup
                Rule(KindStaticTokens, RO)))
      [] role = RoleWeb ->
            FromSpec(role, Allow({Wildcard},
                Rule(KindWebSession, RW) \cup
                Rule(KindSession, RW) \cup
                Rule(KindAuthServer, RO) \cup
                Rule(KindUser, RO) \cup
                Rule(KindRole, RO) \cup
                Rule(KindNamespace, RO) \cup
                Rule(KindTrustedCluster, RO)))
      [] role = RoleSignup ->
            FromSpec(role, Allow({Wildcard},
                Rule(KindAuthServer, RO) \cup
                Rule(KindClusterAuthPreference, RO)))
      [] role = RoleAdmin ->
            FromSpec(role,
                [Namespaces |-> {Wildcard},
                 Options |-> {<<MaxSessionTTL, MaxDuration>>},
                 Logins |-> {},
                 NodeLabels |-> {<<Wildcard, Wildcard>>},
                 Rules |-> Rule(Wildcard, RW)])
      [] role = RoleNop ->
            FromSpec(role, Allow({}, {}))
      [] OTHER ->
            [err |-> "NotFound", checker |-> NoChecker]

\* one entry of the trace of calls an Authorize path makes
E(op, arg, roles, traits) ==
    [roles |-> roles, traits |-> traits, op |-> op, arg |-> arg]

\* the (context, error) pair an Authorize path returns, with the calls made
Fail(err, log) ==
    [err |-> err, log |-> log, User |-> NoUser, Checker |-> NoChecker]
Ok(user, checker, log) ==
    [err |-> "", log |-> log, User |-> user, Checker |-> checker]

\* slip: an unrecognized role is given the empty role specification
contextForBuiltinRole_Defaulted(r) ==
    LET c == GetCheckerForBuiltinRole(r)
        d == IF c.err # "" THEN FromSpec(r, RoleSpecV3) ELSE c
        u == NewUser("builtin-" \o r)
        l1 == <<E("GetCheckerForBuiltinRole", r, <<>>, NoTraits)>>
        l2 == l1 \o <<E("NewUser", "builtin-" \o r, <<>>, NoTraits)>>
    IN  IF u.err # "" THEN Fail(u.err, l2)
        ELSE Ok(u.user, d.checker, l2)

\* slip: the context of an earlier call is kept and handed out again
contextForBuiltinRole_Cached(r) ==
    LET c == GetCheckerForBuiltinRole(r)
        u == NewUser("builtin-" \o r)
        l1 == <<E("GetCheckerForBuiltinRole", r, <<>>, NoTraits)>>
        l2 == l1 \o <<E("NewUser", "builtin-" \o r, <<>>, NoTraits)>>
    IN  IF heap["h1"].User # NoUser
        THEN Ok(heap["h1"].User, heap["h1"].Checker, l2)
        ELSE IF c.err # "" THEN Fail(c.err, l1)
        ELSE IF u.err # "" THEN Fail(u.err, l2)
        ELSE Ok(u.user, c.checker, l2)

contextForBuiltinRole(r) ==
    LET c == GetCheckerForBuiltinRole(r)
        u == NewUser("builtin-" \o r)
        l1 == <<E("GetCheckerForBuiltinRole", r, <<>>, NoTraits)>>
        l2 == l1 \o <<E("NewUser", "builtin-" \o r, <<>>, NoTraits)>>
    IN  IF c.err # "" THEN Fail(c.err, l1)
        ELSE IF u.err # "" THEN Fail(u.err, l2)
        ELSE Ok(u.user, c.checker, l2)

(***************************************************************************)
(* The three backends                                                      *)
(***************************************************************************)
\* the record the identity backend holds for a user name
UserRecord(name) ==
    [name |-> name,
     roles |-> <<"local-editor">>,
     traits |-> {"logins:" \o name}]

\* identity.GetUser
GetUser(users, username) ==
    IF username \in users
    THEN [err |-> "", user |-> UserRecord(username)]
    ELSE [err |-> "NotFound", user |-> NoUser]

\* cert authorities: none, one with a usable role map, one whose role map
\* does not parse
NoCA == [present |-> FALSE, valid |-> FALSE, roleMap |-> {}]
GoodCA ==
    [present |-> TRUE, valid |-> TRUE,
     roleMap |-> {<<"viewer", "local-viewer">>}]
BadCA == [present |-> TRUE, valid |-> FALSE, roleMap |-> {}]
CertAuthorities == {GoodCA, BadCA}

\* trust.GetCertAuthority(CertAuthID{UserCA, clusterName}, false)
GetCertAuthority(cas, clusterName) ==
    IF clusterName \in DOMAIN cas /\ cas[clusterName].present
    THEN [err |-> "", ca |-> cas[clusterName]]
    ELSE [err |-> "NotFound", ca |-> NoCA]

\* the local roles one remote role maps to, in a fixed order
RECURSIVE SetToSeq(_)
SetToSeq(S) ==
    IF S = {} THEN <<>>
    ELSE LET x == CHOOSE y \in S : TRUE IN <<x>> \o SetToSeq(S \ {x})

RECURSIVE MapRoles(_, _)
MapRoles(roleMap, remoteRoles) ==
    IF remoteRoles = <<>> THEN <<>>
    ELSE SetToSeq({m[2] : m \in {n \in roleMap : n[1] = Head(remoteRoles)}})
             \o MapRoles(roleMap, Tail(remoteRoles))

\* ca.CombinedMapping().Map(remoteRoles)
Map(ca, remoteRoles) ==
    IF ~ca.valid
    THEN [err |-> "BadParameter", roleNames |-> <<>>]
    ELSE [err |-> "", roleNames |-> MapRoles(ca.roleMap, remoteRoles)]

\* the role the access backend stores under a name
AccessRole(name) ==
    [name |-> name,
     spec |-> Allow({Wildcard},
         CASE name = "local-viewer" -> Rule(KindNode, RO)
           [] name = "local-editor" -> Rule(KindNode, RW)
           [] OTHER -> Rule(KindSession, RO))]

Range(s) == {s[i] : i \in 1..Len(s)}

\* services.FetchRoles(roleNames, access, traits)
FetchRoles(roleNames, up, traits) ==
    IF ~up
    THEN [err |-> "ConnectionProblem", checker |-> NoChecker]
    ELSE IF \E n \in Range(roleNames) : n \notin AccessRoleNames
    THEN [err |-> "NotFound", checker |-> NoChecker]
    ELSE [err |-> "",
          checker |-> [roles |-> {AccessRole(n) : n \in Range(roleNames)},
                       traits |-> traits,
                       nil |-> FALSE]]

(***************************************************************************)
(* contextForLocalUser, in its two backend calls                           *)
(***************************************************************************)
\* slip: a user the identity backend lacks is made up instead of refused
localUserLookup_Synthetic(username, users) ==
    LET g == GetUser(users, username)
    IN  IF g.err # "" THEN NewUser(username) ELSE g

\* identity.GetUser(username) and its error check
localUserLookup(username, users) ==
    GetUser(users, username)

\* FetchRoles(user.GetRoles(), access, user.GetTraits()) and the result
localUserContext(user, up) ==
    LET f == FetchRoles(user.roles, up, user.traits)
        l == <<E("FetchRoles", "", user.roles, user.traits)>>
    IN  IF f.err # "" THEN Fail(f.err, l)
        ELSE Ok(user, f.checker, l)

contextForLocalUser(username, users, up) ==
    LET g == localUserLookup(username, users)
        l == <<E("GetUser", username, <<>>, NoTraits)>>
    IN  IF g.err # "" THEN Fail(g.err, l)
        ELSE LET r == localUserContext(g.user, up)
             IN  [r EXCEPT !.log = l \o r.log]

(***************************************************************************)
(* authorizeRemoteUser, in its two backend calls                           *)
(***************************************************************************)
\* trust.GetCertAuthority and the role mapping
remoteUserRoles(u, cas) ==
    LET g == GetCertAuthority(cas, u.ClusterName)
        m == Map(g.ca, u.RemoteRoles)
        l1 == <<E("GetCertAuthority", u.ClusterName, <<>>, NoTraits)>>
        l2 == l1 \o <<E("Map", "", u.RemoteRoles, NoTraits)>>
    IN  IF g.err # "" THEN [err |-> g.err, log |-> l1, roleNames |-> <<>>]
        ELSE IF m.err # ""
        THEN [err |-> "AccessDenied", log |-> l2, roleNames |-> <<>>]
        ELSE [err |-> "", log |-> l2, roleNames |-> m.roleNames]

\* slip: the remote role names are fetched instead of the mapped ones
remoteUserContext_RawRoles(u, roleNames, up) ==
    LET f == FetchRoles(u.RemoteRoles, up, NoTraits)
        name == "remote-" \o u.Username \o "-" \o u.ClusterName
        n == NewUser(name)
        l1 == <<E("FetchRoles", "", u.RemoteRoles, NoTraits)>>
        l2 == l1 \o <<E("NewUser", name, <<>>, NoTraits)>>
    IN  IF f.err # "" THEN Fail(f.err, l1)
        ELSE IF n.err # "" THEN Fail(n.err, l2)
        ELSE Ok(n.user, f.checker, l2)

\* FetchRoles(roleNames, access, nil), NewUser and the result
remoteUserContext(u, roleNames, up) ==
    LET f == FetchRoles(roleNames, up, NoTraits)
        name == "remote-" \o u.Username \o "-" \o u.ClusterName
        n == NewUser(name)
        l1 == <<E("FetchRoles", "", roleNames, NoTraits)>>
        l2 == l1 \o <<E("NewUser", name, <<>>, NoTraits)>>
    IN  IF f.err # "" THEN Fail(f.err, l1)
        ELSE IF n.err # "" THEN Fail(n.err, l2)
        ELSE Ok(n.user, f.checker, l2)

(***************************************************************************)
(* Request contexts and the dispatch of authorizer.Authorize               *)
(***************************************************************************)
Ctx(type, username, cluster, remoteRoles, role) ==
    [ClusterName |-> cluster, RemoteRoles |-> remoteRoles,
     Username |-> username, type |-> type, Role |-> role]

RemoteRoleLists ==
    UNION {[1..n -> RemoteRoleNames] : n \in 0..MaxRemoteRoles}

\* ctx == nil, a ctx without a user value, a ctx with a value of another type
NilCtx == Ctx("nil", "", "", <<>>, "")
EmptyCtx == Ctx("empty", "", "", <<>>, "")
OtherCtx == Ctx("other", "", "", <<>>, "")
LocalUserCtxs == {Ctx("LocalUser", n, "", <<>>, "") : n \in ClaimUserNames}
RemoteUserCtxs ==
    {Ctx("RemoteUser", n, c, rr, "") :
        n \in RemoteUserNames, c \in ClusterNames, rr \in RemoteRoleLists}
BuiltinRoleCtxs == {Ctx("BuiltinRole", "", "", <<>>, r) : r \in BuiltinRoleIds}
Ctxs ==
    {NilCtx, EmptyCtx, OtherCtx} \cup LocalUserCtxs \cup RemoteUserCtxs
        \cup BuiltinRoleCtxs

\* slip: the default branch treats the value as a local user
AuthorizeBranch_NoDefault(ctx) ==
    IF ctx.type = "nil" THEN "missing"
    ELSE CASE ctx.type = "RemoteUser" -> "authorizeRemoteUser"
           [] ctx.type = "BuiltinRole" -> "authorizeBuiltinRole"
           [] OTHER -> "authorizeLocalUser"

\* the branch the type switch of Authorize takes
AuthorizeBranch(ctx) ==
    IF ctx.type = "nil" THEN "missing"
    ELSE CASE ctx.type = "LocalUser" -> "authorizeLocalUser"
           [] ctx.type = "RemoteUser" -> "authorizeRemoteUser"
           [] ctx.type = "BuiltinRole" -> "authorizeBuiltinRole"
           [] OTHER -> "unsupported"

\* the two returns of Authorize that call nothing
authorizeDenied(ctx) ==
    Fail("AccessDenied", <<>>)

authorizeBuiltinRole(r) ==
    contextForBuiltinRole(r.Role)

(***************************************************************************)
(* Constructors                                                            *)
(***************************************************************************)
NoAuthorizer ==
    [identity |-> FALSE, trust |-> FALSE, kind |-> "none", access |-> FALSE]
ContextAuthorizer ==
    [identity |-> FALSE, trust |-> FALSE, kind |-> "contextAuthorizer",
     access |-> FALSE]

\* slip: the trust argument is not checked
NewAuthorizer_NoTrustCheck(acc, idn, tr) ==
    IF ~acc THEN [err |-> "BadParameter", authorizer |-> NoAuthorizer]
    ELSE IF ~idn THEN [err |-> "BadParameter", authorizer |-> NoAuthorizer]
    ELSE [err |-> "",
          authorizer |-> [identity |-> idn, trust |-> tr,
                          kind |-> "authorizer", access |-> acc]]

\* acc, idn, tr: whether the argument is non-nil
NewAuthorizer(acc, idn, tr) ==
    IF ~acc THEN [err |-> "BadParameter", authorizer |-> NoAuthorizer]
    ELSE IF ~idn THEN [err |-> "BadParameter", authorizer |-> NoAuthorizer]
    ELSE IF ~tr THEN [err |-> "BadParameter", authorizer |-> NoAuthorizer]
    ELSE [err |-> "",
          authorizer |-> [identity |-> idn, trust |-> tr,
                          kind |-> "authorizer", access |-> acc]]

(***************************************************************************)
(* State                                                                   *)
(***************************************************************************)
NilAddr == "nil"
\* address of the authContext field of the contextAuthorizer
EmbeddedAddr == "authContext"
\* addresses of the AuthContext objects allocated by Authorize calls
HeapAddrs == {"h1", "h2"}
Addrs == HeapAddrs \cup {EmbeddedAddr}

NoContext == [User |-> NoUser, Checker |-> NoChecker]
AuthContext(res) == [User |-> res.User, Checker |-> res.Checker]

\* what a caller writes into a context it was handed
OtherUser == [name |-> "mallory", roles |-> <<>>, traits |-> NoTraits]

NoCtor ==
    [identity |-> FALSE, trust |-> FALSE, err |-> "", access |-> FALSE,
     fn |-> ""]

IdleCall ==
    [err |-> "", user |-> NoUser, log |-> <<>>, roleNames |-> <<>>,
     ctx |-> NilCtx, pc |-> "idle", addr |-> NilAddr, stale |-> FALSE]

Init ==
    /\ authz = NoAuthorizer
    /\ ctorErr = NoCtor
    /\ identity = {}
    /\ trust = [c \in ClusterNames |-> NoCA]
    /\ accessUp = TRUE
    /\ heap = [a \in Addrs |-> NoContext]
    /\ call = [c \in Callers |-> IdleCall]

backends == <<identity, trust, accessUp>>

\* &AuthContext{...}: an address no live object has
NewAddr == CHOOSE a \in HeapAddrs : heap[a] = NoContext

\* the call of caller c returns res
Return(c, ctx, res) ==
    LET a == IF res.err = "" THEN NewAddr ELSE NilAddr
    IN  /\ call' = [call EXCEPT ![c] =
                [err |-> res.err, user |-> NoUser,
                 log |-> call[c].log \o res.log, roleNames |-> <<>>,
                 ctx |-> ctx, pc |-> "done", addr |-> a,
                 stale |-> call[c].stale]]
        /\ heap' = IF res.err = "" THEN [heap EXCEPT ![a] = AuthContext(res)]
                   ELSE heap

(***************************************************************************)
(* Constructors                                                            *)
(***************************************************************************)
DoNewAuthorizer(acc, idn, tr) ==
    LET r == NewAuthorizer(acc, idn, tr)
    IN  /\ authz.kind = "none"
        /\ authz' = r.authorizer
        /\ ctorErr' = [identity |-> idn, trust |-> tr, err |-> r.err,
                       access |-> acc, fn |-> "NewAuthorizer"]
        /\ UNCHANGED <<identity, trust, accessUp, heap, call>>

\* &contextAuthorizer{authContext: *authContext}
NewContextAuthorizer(fn, res) ==
    /\ authz' = IF res.err = "" THEN ContextAuthorizer ELSE NoAuthorizer
    /\ heap' = IF res.err = ""
               THEN [heap EXCEPT ![EmbeddedAddr] = AuthContext(res)]
               ELSE heap
    /\ ctorErr' = [NoCtor EXCEPT !.fn = fn, !.err = res.err]
    /\ UNCHANGED <<identity, trust, accessUp, call>>

NewRoleAuthorizer(r) ==
    /\ authz.kind = "none"
    /\ NewContextAuthorizer("NewRoleAuthorizer", contextForBuiltinRole(r))

NewUserAuthorizer(username) ==
    /\ authz.kind = "none"
    /\ NewContextAuthorizer("NewUserAuthorizer",
            contextForLocalUser(username, identity, accessUp))

(***************************************************************************)
(* Authorize                                                               *)
(***************************************************************************)
\* contextAuthorizer.Authorize: return &r.authContext, nil
ContextAuthorize(c, ctx) ==
    /\ authz.kind = "contextAuthorizer"
    /\ call[c].pc = "idle"
    /\ call' = [call EXCEPT ![c] =
            [IdleCall EXCEPT !.pc = "done", !.ctx = ctx,
                             !.addr = EmbeddedAddr]]
    /\ UNCHANGED <<authz, ctorErr, identity, trust, accessUp, heap>>

\* authorizer.Authorize: ctx == nil, or the default branch
AuthorizeDenied(c, ctx) ==
    /\ authz.kind = "authorizer"
    /\ call[c].pc = "idle"
    /\ AuthorizeBranch(ctx) \in {"missing", "unsupported"}
    /\ Return(c, ctx, authorizeDenied(ctx))
    /\ UNCHANGED <<authz, ctorErr, identity, trust, accessUp>>

\* authorizer.Authorize: case teleport.BuiltinRole
AuthorizeBuiltinRole(c, ctx) ==
    /\ authz.kind = "authorizer"
    /\ call[c].pc = "idle"
    /\ AuthorizeBranch(ctx) = "authorizeBuiltinRole"
    /\ Return(c, ctx, authorizeBuiltinRole(ctx))
    /\ UNCHANGED <<authz, ctorErr, identity, trust, accessUp>>

\* authorizer.Authorize: case teleport.LocalUser, up to identity.GetUser
AuthorizeLocalUser(c, ctx) ==
    LET g == localUserLookup(ctx.Username, identity)
        l == <<E("GetUser", ctx.Username, <<>>, NoTraits)>>
    IN  /\ authz.kind = "authorizer"
        /\ call[c].pc = "idle"
        /\ AuthorizeBranch(ctx) = "authorizeLocalUser"
        /\ IF g.err # ""
           THEN Return(c, ctx, Fail(g.err, l))
           ELSE /\ call' = [call EXCEPT ![c] =
                        [IdleCall EXCEPT !.pc = "localFetchRoles",
                                         !.ctx = ctx, !.user = g.user,
                                         !.log = l]]
                /\ UNCHANGED heap
        /\ UNCHANGED <<authz, ctorErr, identity, trust, accessUp>>

\* contextForLocalUser from services.FetchRoles on
LocalFetchRoles(c) ==
    /\ call[c].pc = "localFetchRoles"
    /\ Return(c, call[c].ctx, localUserContext(call[c].user, accessUp))
    /\ UNCHANGED <<authz, ctorErr, identity, trust, accessUp>>

\* authorizer.Authorize: case teleport.RemoteUser, up to the role mapping
AuthorizeRemoteUser(c, ctx) ==
    LET m == remoteUserRoles(ctx, trust)
    IN  /\ authz.kind = "authorizer"
        /\ call[c].pc = "idle"
        /\ AuthorizeBranch(ctx) = "authorizeRemoteUser"
        /\ IF m.err # ""
           THEN Return(c, ctx, Fail(m.err, m.log))
           ELSE /\ call' = [call EXCEPT ![c] =
                        [IdleCall EXCEPT !.pc = "remoteFetchRoles",
                                         !.ctx = ctx,
                                         !.roleNames = m.roleNames,
                                         !.log = m.log]]
                /\ UNCHANGED heap
        /\ UNCHANGED <<authz, ctorErr, identity, trust, accessUp>>

\* authorizeRemoteUser from services.FetchRoles on
RemoteFetchRoles(c) ==
    /\ call[c].pc = "remoteFetchRoles"
    /\ Return(c, call[c].ctx,
              remoteUserContext(call[c].ctx, call[c].roleNames, accessUp))
    /\ UNCHANGED <<authz, ctorErr, identity, trust, accessUp>>

(***************************************************************************)
(* The callers                                                             *)
(***************************************************************************)
\* a caller assigns to the User field of the context it was handed
SetUser(c) ==
    /\ call[c].pc = "done"
    /\ call[c].addr # NilAddr
    /\ heap[call[c].addr].User # OtherUser
    /\ heap' = [heap EXCEPT ![call[c].addr].User = OtherUser]
    /\ UNCHANGED <<authz, ctorErr, identity, trust, accessUp, call>>

\* the request completes and the caller drops what Authorize returned
Discard(c) ==
    /\ call[c].pc = "done"
    /\ call' = [call EXCEPT ![c] = IdleCall]
    /\ heap' = IF call[c].addr \in HeapAddrs
               THEN [heap EXCEPT ![call[c].addr] = NoContext]
               ELSE heap
    /\ UNCHANGED <<authz, ctorErr, identity, trust, accessUp>>

(***************************************************************************)
(* Updates of the backends by the rest of the system                       *)
(***************************************************************************)
\* every call in progress or returned has seen an older backend state
Outdated ==
    [c \in Callers |->
        IF call[c].pc = "idle" THEN call[c]
        ELSE [call[c] EXCEPT !.stale = TRUE]]

UpsertUser(name) ==
    /\ name \notin identity
    /\ identity' = identity \cup {name}
    /\ call' = Outdated
    /\ UNCHANGED <<authz, ctorErr, trust, accessUp, heap>>

DeleteUser(name) ==
    /\ name \in identity
    /\ identity' = identity \ {name}
    /\ call' = Outdated
    /\ UNCHANGED <<authz, ctorErr, trust, accessUp, heap>>

UpsertCertAuthority(cluster, ca) ==
    /\ trust[cluster] # ca
    /\ trust' = [trust EXCEPT ![cluster] = ca]
    /\ call' = Outdated
    /\ UNCHANGED <<authz, ctorErr, identity, accessUp, heap>>

DeleteCertAuthority(cluster) ==
    /\ trust[cluster] # NoCA
    /\ trust' = [trust EXCEPT ![cluster] = NoCA]
    /\ call' = Outdated
    /\ UNCHANGED <<authz, ctorErr, identity, accessUp, heap>>

\* the access backend starts or stops failing
AccessFlip ==
    /\ accessUp' = ~accessUp
    /\ call' = Outdated
    /\ UNCHANGED <<authz, ctorErr, identity, trust, heap>>

Next ==
    \/ \E acc \in BOOLEAN, idn \in BOOLEAN, tr \in BOOLEAN :
          DoNewAuthorizer(acc, idn, tr)
    \/ \E r \in BuiltinRoleIds : NewRoleAuthorizer(r)
    \/ \E n \in ClaimUserNames : NewUserAuthorizer(n)
    \/ \E c \in Callers, ctx \in Ctxs : ContextAuthorize(c, ctx)
    \/ \E c \in Callers, ctx \in Ctxs : AuthorizeDenied(c, ctx)
    \/ \E c \in Callers, ctx \in Ctxs : AuthorizeBuiltinRole(c, ctx)
    \/ \E c \in Callers, ctx \in Ctxs : AuthorizeLocalUser(c, ctx)
    \/ \E c \in Callers : LocalFetchRoles(c)
    \/ \E c \in Callers, ctx \in Ctxs : AuthorizeRemoteUser(c, ctx)
    \/ \E c \in Callers : RemoteFetchRoles(c)
    \/ \E c \in Callers : SetUser(c)
    \/ \E c \in Callers : Discard(c)
    \/ \E n \in LocalUserNames : UpsertUser(n)
    \/ \E n \in LocalUserNames : DeleteUser(n)
    \/ \E cl \in ClusterNames, ca \in CertAuthorities :
          UpsertCertAuthority(cl, ca)
    \/ \E cl \in ClusterNames : DeleteCertAuthority(cl)
    \/ AccessFlip

Spec == Init /\ [][Next]_vars

(***************************************************************************)
(* Properties                                                              *)
(***************************************************************************)
\* caller c holds what an authorizer.Authorize call on ctx type t returned
Returned(c, t) ==
    /\ authz.kind = "authorizer"
    /\ call[c].pc = "done"
    /\ call[c].ctx.type = t

Succeeded(c) == call[c].err = "" /\ call[c].addr # NilAddr
Context(c) == heap[call[c].addr]
Untouched(c) == Context(c).User # OtherUser
Ops(c) == [i \in 1..Len(call[c].log) |-> call[c].log[i].op]
RoleNamesOf(checker) == {r.name : r \in checker.roles}

\* section 4.2 of the specification: kinds granted read and write, and
\* kinds granted read only, per builtin role
TableRW(r) ==
    CASE r = "auth-server" -> {"auth_server"}
      [] r = "node" -> {"node", "session", "event"}
      [] r = "proxy" ->
            {"proxy", "oidc_request", "session", "event", "saml_request"}
      [] r = "web" -> {"web_session", "session"}
      [] r = "admin" -> Kinds
      [] OTHER -> {}

TableRO(r) ==
    CASE r = "node" ->
            {"proxy", "cert_authority", "user", "namespace", "role",
             "auth_server", "tunnel"}
      [] r = "proxy" ->
            {"oidc", "saml", "namespace", "node", "auth_server", "tunnel",
             "cert_authority", "user", "role", "cluster_auth_preference",
             "cluster_name", "static_tokens"}
      [] r = "web" ->
            {"auth_server", "user", "role", "namespace", "trusted_cluster"}
      [] r = "signup" -> {"auth_server", "cluster_auth_preference"}
      [] OTHER -> {}

TableGrants(r) ==
    {q \in Namespaces \X Kinds \X Verbs :
        \/ q[2] \in TableRW(r)
        \/ q[2] \in TableRO(r) /\ q[3] = "read"}

\* a builtin claim of a known role succeeds, calls no backend, is named
\* prefix \o role and is granted exactly the table's entry
BuiltinContract(prefix) ==
    \A c \in Callers :
        Returned(c, "BuiltinRole") /\ call[c].ctx.Role \in KnownRoles =>
            /\ Succeeded(c)
            /\ \A i \in 1..Len(call[c].log) :
                  call[c].log[i].op \notin
                      {"FetchRoles", "GetUser", "GetCertAuthority"}
            /\ Untouched(c) =>
                  Context(c).User.name = prefix \o call[c].ctx.Role
            /\ Grants(Context(c).Checker) = TableGrants(call[c].ctx.Role)

C2_NoCollision ==
    \A c \in Callers :
        /\ \/ Returned(c, "RemoteUser")
           \/ Returned(c, "BuiltinRole")
        /\ Succeeded(c) /\ Untouched(c)
        => Context(c).User.name \notin identity

\* C3: a RemoteUser claim whose cluster has a cert authority, and whose
\* remote roles map to no local role (the mapping fails or yields the empty
\* list), ends in AccessDenied without a context.
C3_UnmappedDenied ==
    \A c \in Callers :
        /\ Returned(c, "RemoteUser")
        /\ Len(call[c].log) >= 2
        /\ call[c].log[2].op = "Map"
        /\ Len(call[c].log) = 2 \/ call[c].log[3].roles = <<>>
        => call[c].err = "AccessDenied" /\ call[c].addr = NilAddr

\* C4: a RemoteUser claim that succeeds made exactly the calls
\* GetCertAuthority, Map, FetchRoles, NewUser in this order; FetchRoles got
\* no traits and the checker holds exactly the roles FetchRoles was given,
\* which are (the backends unchanged since) the mapping of the claim's
\* remote roles by the cluster's cert authority.
C4_RemoteCapability ==
    \A c \in Callers :
        Returned(c, "RemoteUser") /\ Succeeded(c) =>
            /\ Ops(c) = <<"GetCertAuthority", "Map", "FetchRoles", "NewUser">>
            /\ call[c].log[2].roles = call[c].ctx.RemoteRoles
            /\ call[c].log[3].traits = NoTraits
            /\ Context(c).Checker.traits = NoTraits
            /\ RoleNamesOf(Context(c).Checker) = Range(call[c].log[3].roles)
            /\ ~call[c].stale =>
                  LET cluster == call[c].ctx.ClusterName
                      mapped == {m[2] : m \in
                                   {n \in trust[cluster].roleMap :
                                       n[1] \in Range(call[c].ctx.RemoteRoles)}}
                  IN  /\ RoleNamesOf(Context(c).Checker) = mapped
                      /\ Grants(Context(c).Checker) =
                            UNION {Grants([roles |-> {AccessRole(n)},
                                           traits |-> NoTraits,
                                           nil |-> FALSE]) :
                                      n \in mapped}

\* remote alice, role viewer, was authorized while a local alice exists
C4_Witness ==
    \E c \in Callers :
        /\ Returned(c, "RemoteUser") /\ Succeeded(c) /\ Untouched(c)
        /\ ~call[c].stale
        /\ call[c].ctx.RemoteRoles = <<"viewer">>
        /\ call[c].ctx.Username \in identity
        /\ RoleNamesOf(Context(c).Checker) = {"local-viewer"}

\* C5: a BuiltinRole claim of a role outside the table ends in NotFound
\* without a context.
C5_UnknownRoleNotFound ==
    \A c \in Callers :
        Returned(c, "BuiltinRole") /\ call[c].ctx.Role \notin KnownRoles =>
            call[c].err = "NotFound" /\ call[c].addr = NilAddr

C5_Witness ==
    \E c \in Callers :
        /\ Returned(c, "BuiltinRole")
        /\ call[c].ctx.Role = "trusted-cluster"
        /\ call[c].err = "NotFound"

\* C6: a nil context, a context without a user value and a context with a
\* value of an unsupported type end in AccessDenied, without a context and
\* without any call.
C6_FailClosed ==
    \A c \in Callers :
        /\ authz.kind = "authorizer"
        /\ call[c].pc # "idle"
        /\ call[c].ctx.type \notin {"LocalUser", "RemoteUser", "BuiltinRole"}
        => /\ call[c].pc = "done"
           /\ call[c].err = "AccessDenied"
           /\ call[c].addr = NilAddr
           /\ call[c].log = <<>>

C6_Witness ==
    \E c1 \in Callers, c2 \in Callers :
        /\ Returned(c1, "nil") /\ call[c1].err = "AccessDenied"
        /\ Returned(c2, "other") /\ call[c2].err = "AccessDenied"

\* C7: no call is made twice within one Authorize; a LocalUser claim of a
\* user the identity backend lacks ends in an error after GetUser alone; a
\* RemoteUser claim of a cluster without cert authority ends in an error
\* after GetCertAuthority alone; a failing FetchRoles is the last call and
\* yields an error; a returned call has either an error or a context, and a
\* context has a user and a checker.
C7_FailFast ==
    \A c \in Callers :
        authz.kind = "authorizer" /\ call[c].pc # "idle" =>
            /\ \A i \in 1..Len(call[c].log), j \in 1..Len(call[c].log) :
                  i # j => call[c].log[i].op # call[c].log[j].op
            /\ call[c].pc = "done" =>
                  /\ (call[c].err = "") # (call[c].addr = NilAddr)
                  /\ call[c].addr # NilAddr =>
                        /\ Context(c).User # NoUser
                        /\ ~Context(c).Checker.nil
                  /\ call[c].err # "" /\ call[c].log # <<>> =>
                        call[c].log[Len(call[c].log)].op \in
                            {"GetUser", "GetCertAuthority", "Map",
                             "FetchRoles", "GetCheckerForBuiltinRole"}
            /\ call[c].pc = "done" /\ ~call[c].stale =>
                  /\ call[c].ctx.type = "LocalUser"
                        /\ call[c].ctx.Username \notin identity =>
                            /\ call[c].err = "NotFound"
                            /\ call[c].addr = NilAddr
                            /\ Ops(c) = <<"GetUser">>
                  /\ call[c].ctx.type = "RemoteUser"
                        /\ ~trust[call[c].ctx.ClusterName].present =>
                            /\ call[c].err = "NotFound"
                            /\ call[c].addr = NilAddr
                            /\ Ops(c) = <<"GetCertAuthority">>
                  /\ ~accessUp
                        /\ (\E i \in 1..Len(call[c].log) :
                              call[c].log[i].op = "FetchRoles") =>
                            /\ call[c].err # ""
                            /\ call[c].addr = NilAddr
                            /\ call[c].log[Len(call[c].log)].op = "FetchRoles"

\* a local claim of an absent user failed while the access backend was up
C7_Witness ==
    \E c \in Callers :
        /\ Returned(c, "LocalUser")
        /\ ~call[c].stale
        /\ call[c].ctx.Username \notin identity
        /\ call[c].err = "NotFound"
        /\ accessUp

\* the outcomes of two returned calls agree
SameOutcome(c1, c2) ==
    /\ call[c1].err = call[c2].err
    /\ call[c1].log = call[c2].log
    /\ (call[c1].addr = NilAddr) = (call[c2].addr = NilAddr)
    /\ call[c1].addr # NilAddr /\ call[c2].addr # NilAddr =>
          /\ Context(c1).Checker = Context(c2).Checker
          /\ Grants(Context(c1).Checker) = Grants(Context(c2).Checker)
          /\ Untouched(c1) /\ Untouched(c2) =>
                Context(c1).User = Context(c2).User

\* a step of an authorizer.Authorize call
AuthorizeStep ==
    /\ authz.kind = "authorizer"
    /\ \E c \in Callers :
          call'[c].pc # call[c].pc /\ call'[c].pc # "idle"

C9_Construction ==
    /\ ctorErr.fn = "NewAuthorizer" =>
          IF ctorErr.access /\ ctorErr.identity /\ ctorErr.trust
          THEN ctorErr.err = "" /\ authz.kind = "authorizer"
          ELSE ctorErr.err = "BadParameter" /\ authz.kind = "none"
    /\ authz.kind = "authorizer" =>
          authz.access /\ authz.identity /\ authz.trust
    /\ \A c \in Callers :
          call[c].pc # "idle" => authz.kind # "none"

\* NewAuthorizer was refused for a nil trust backend alone
C9_Witness ==
    /\ ctorErr.fn = "NewAuthorizer"
    /\ ctorErr.access /\ ctorErr.identity /\ ~ctorErr.trust
    /\ ctorErr.err = "BadParameter"
    /\ authz.kind = "none"

\* C10: two callers never hold the same AuthContext object.
C10_FreshContext ==
    \A c1 \in Callers, c2 \in Callers :
        /\ c1 # c2
        /\ call[c1].pc = "done" /\ call[c1].addr # NilAddr
        /\ call[c2].pc = "done" /\ call[c2].addr # NilAddr
        => call[c1].addr # call[c2].addr

====
